---------------------------- MODULE Spec2Model ----------------------------
(***************************************************************************)
(* Out-of-level alarm firmware (ESP32-S3): app_main's control loop, the    *)
(* Level Monitor is_out_of_level, the brightness mapping                   *)
(* raw_ADC_to_LED_val, the LED timer callback led_alarm_handler and the    *)
(* GPS speed callback M20048_event_handler.                                *)
(*                                                                         *)
(* These specifications share the variables:                               *)
(*   Spec       the whole program: app_main interleaved with the timer     *)
(*              callback and the speed callback;                           *)
(*   FairSpec   Spec under the scheduling of app_main and the timer;       *)
(*   SpecLevel  is_out_of_level called in sequence on arbitrary inputs;    *)
(*   SpecMap    raw_ADC_to_LED_val applied to one arbitrary reading;       *)
(*   SpecEvent  M20048_event_handler called for arbitrary events.          *)
(***************************************************************************)
EXTENDS Integers, Sequences, FiniteSets

VARIABLES
    \* build-time configuration (parameters.h)
    threshold_angle, lower_speed, upper_speed,
    \* app_main: position and locals
    pc, speed, led_on, is_led_on, led_on_val, angle, light, is_led_on_read,
    inited, torn,
    \* is_out_of_level: static state, and the value of the first *speed read
    state, speed_r1,
    \* led.c: static toggle of led_alarm_handler, timer, PWM duty
    led_toggle, timer_running, duty,
    \* speed source: handler registered on the event loop
    handler_registered,
    \* observations: led_on as the latest timer callback saw it, a bit that
    \* flips at every timer callback, whether some timer callback has already
    \* found led_on true, whether is_out_of_level ever returned true
    cb_seen, cb_tick, cb_served, alarmed,
    \* observation of the latest is_out_of_level call of SpecLevel
    call,
    \* observation of the latest event handled in SpecEvent
    event

vars == <<threshold_angle, lower_speed, upper_speed, pc, speed, led_on,
          is_led_on, led_on_val, angle, light, is_led_on_read, inited, torn,
          state, speed_r1, led_toggle, timer_running, duty,
          handler_registered, cb_seen, cb_tick, cb_served, alarmed, call,
          event>>

config_vars == <<threshold_angle, lower_speed, upper_speed>>

(***************************************************************************)
(* Bounds of the model.                                                    *)
(***************************************************************************)
MaxSpeedThreshold == 3
MaxAngleThreshold == 1
MaxSpeed == 4
MaxAngle == 1
BelowZero == 4096
MaxReading == 8192

(***************************************************************************)
(* Program constants.                                                      *)
(***************************************************************************)
initial_state == 1
threshold_angle_and_speed == 2
AdcOffset == 500
AdcSpan == 2598
MaxDuty == 1023
FloorTenths == 1
AdcNominalMin == 150
AdcNominalMax == 2450

SpeedThresholds == 1..MaxSpeedThreshold
AngleThresholds == 1..MaxAngleThreshold
Speeds == 0..MaxSpeed
Angles == (0 - MaxAngle)..MaxAngle
Readings == (0 - BelowZero)..MaxReading
LightSamples == {AdcNominalMin, AdcNominalMax}
EventIds == {"GPS_UPDATE", "GPS_UNKNOWN", "OTHER"}

(***************************************************************************)
(* C conversion of a non-integral quotient to int: truncation toward zero. *)
(***************************************************************************)
TruncDiv(a, b) ==
    IF a >= 0 THEN a \div b ELSE 0 - ((0 - a) \div b)

(***************************************************************************)
(* raw_ADC_to_LED_val.  intermediate is held exactly, in units of          *)
(* 1/(10*AdcSpan): 1.0 is 10*AdcSpan units and 0.1 is FloorTenths*AdcSpan. *)
(* The float roundings of the C code do not change the truncated result:   *)
(* (r-500)*1023/2598 is integral only for r-500 in {866,1732,2598}, where  *)
(* the float value lies at or just above the integer, and is otherwise at  *)
(* least 1/866 away from an integer; 0.1f*1023 = 102.3000015 truncates to  *)
(* 102.                                                                    *)
(***************************************************************************)
\* raw_ADC_to_LED_val with one fault: the 0.1 floor of lines 142-143 left out
raw_ADC_to_LED_val_noFloor(raw_ADC_reading) ==
    LET one == 10 * AdcSpan
        i0 == 10 * (raw_ADC_reading - AdcOffset)
        i1 == IF i0 > one THEN one ELSE i0
    IN  TruncDiv(i1 * MaxDuty, one)

\* lines 134-146 with one fault: a reading under the floor is set to 1, not
\* to 0.1
raw_ADC_to_LED_val_floorToFull(raw_ADC_reading) ==
    LET one == 10 * AdcSpan
        tenth == FloorTenths * AdcSpan
        i0 == 10 * (raw_ADC_reading - AdcOffset)
        i1 == IF i0 > one THEN one ELSE i0
        i2 == IF i1 < tenth THEN one ELSE i1
    IN  TruncDiv(i2 * MaxDuty, one)

\* lines 134-146 with one fault: the result rounded to the nearest integer
\* where C truncates
raw_ADC_to_LED_val_rounded(raw_ADC_reading) ==
    LET one == 10 * AdcSpan
        tenth == FloorTenths * AdcSpan
        i0 == 10 * (raw_ADC_reading - AdcOffset)
        i1 == IF i0 > one THEN one ELSE i0
        i2 == IF i1 < tenth THEN tenth ELSE i1
    IN  TruncDiv(2 * i2 * MaxDuty + one, 2 * one)

raw_ADC_to_LED_val(raw_ADC_reading) ==
    LET one == 10 * AdcSpan
        tenth == FloorTenths * AdcSpan
        i0 == 10 * (raw_ADC_reading - AdcOffset)
        i1 == IF i0 > one THEN one ELSE i0
        i2 == IF i1 < tenth THEN tenth ELSE i1
    IN  TruncDiv(i2 * MaxDuty, one)

(***************************************************************************)
(* combined_angle = sqrt(x^2 + y^2).  The model keeps its square; for the  *)
(* comparisons with threshold_angle, sqrt(q) >= t iff t <= 0 or q >= t*t.  *)
(***************************************************************************)
\* lines 165-166 with one fault: the combined angle is taken from x alone
combined_angle_sq_xOnly(x, y) == x * x

combined_angle_sq(x, y) == x * x + y * y

combined_angle_ge(x, y, t) == t <= 0 \/ combined_angle_sq(x, y) >= t * t

(***************************************************************************)
(* is_out_of_level on static state st and angle (x, y).  s1 and s2 are the *)
(* values of the first and of the second read of *speed in the condition   *)
(* of the branch taken.  The result is the new static state and the value  *)
(* returned.                                                               *)
(***************************************************************************)
\* is_out_of_level with one fault each: > for >= in the angle test; no way
\* back from ALARM; || for && between the two speed tests of line 184
is_out_of_level_strictAngle(st, x, y, s1, s2) ==
    LET st1 == IF st = 0 THEN initial_state ELSE st
        ge == combined_angle_sq(x, y) > threshold_angle * threshold_angle
    IN  CASE st1 = initial_state ->
                IF ge /\ (s1 >= lower_speed /\ s2 <= upper_speed)
                THEN [state |-> threshold_angle_and_speed, out |-> TRUE]
                ELSE [state |-> st1, out |-> FALSE]
          [] st1 = threshold_angle_and_speed ->
                IF ~ge /\ (s1 < lower_speed /\ s2 > upper_speed)
                THEN [state |-> initial_state, out |-> FALSE]
                ELSE [state |-> st1, out |-> TRUE]
          [] OTHER -> [state |-> st1, out |-> FALSE]

is_out_of_level_noRecovery(st, x, y, s1, s2) ==
    LET st1 == IF st = 0 THEN initial_state ELSE st
        ge == combined_angle_ge(x, y, threshold_angle)
    IN  CASE st1 = initial_state ->
                IF ge /\ (s1 >= lower_speed /\ s2 <= upper_speed)
                THEN [state |-> threshold_angle_and_speed, out |-> TRUE]
                ELSE [state |-> st1, out |-> FALSE]
          [] st1 = threshold_angle_and_speed -> [state |-> st1, out |-> TRUE]
          [] OTHER -> [state |-> st1, out |-> FALSE]

is_out_of_level_leftBand(st, x, y, s1, s2) ==
    LET st1 == IF st = 0 THEN initial_state ELSE st
        ge == combined_angle_ge(x, y, threshold_angle)
    IN  CASE st1 = initial_state ->
                IF ge /\ (s1 >= lower_speed /\ s2 <= upper_speed)
                THEN [state |-> threshold_angle_and_speed, out |-> TRUE]
                ELSE [state |-> st1, out |-> FALSE]
          [] st1 = threshold_angle_and_speed ->
                IF ~ge /\ (s1 < lower_speed \/ s2 > upper_speed)
                THEN [state |-> initial_state, out |-> FALSE]
                ELSE [state |-> st1, out |-> TRUE]
          [] OTHER -> [state |-> st1, out |-> FALSE]

\* line 169 with one fault: the static state is not set on the first call
state_on_entry_noInit(st) == st

\* lines 169-170: the first call finds the static state 0 and makes it NORMAL
state_on_entry(st) == IF st = 0 THEN initial_state ELSE st

\* lines 175/184: the operands of && up to and including the first read of
\* *speed; when they fail, the rest of the condition is not evaluated
first_tests(st1, x, y, s1) ==
    CASE st1 = initial_state ->
            combined_angle_ge(x, y, threshold_angle) /\ s1 >= lower_speed
      [] st1 = threshold_angle_and_speed ->
            ~combined_angle_ge(x, y, threshold_angle) /\ s1 < lower_speed
      [] OTHER -> FALSE

\* lines 175/184: the last operand of &&, on the second read of *speed
last_test(st1, s2) ==
    CASE st1 = initial_state -> s2 <= upper_speed
      [] st1 = threshold_angle_and_speed -> s2 > upper_speed
      [] OTHER -> FALSE

\* lines 177-178 with one fault: the state is set to ALARM but the return
\* value left false
transition_lateOutput(st1, cond) ==
    CASE st1 = initial_state ->
            IF cond
            THEN [state |-> threshold_angle_and_speed, out |-> FALSE]
            ELSE [state |-> st1, out |-> FALSE]
      [] st1 = threshold_angle_and_speed ->
            IF cond
            THEN [state |-> initial_state, out |-> FALSE]
            ELSE [state |-> st1, out |-> TRUE]
      [] OTHER -> [state |-> st1, out |-> FALSE]

\* lines 172-196: the branch taken on the value of the condition
transition(st1, cond) ==
    CASE st1 = initial_state ->
            IF cond
            THEN [state |-> threshold_angle_and_speed, out |-> TRUE]
            ELSE [state |-> st1, out |-> FALSE]
      [] st1 = threshold_angle_and_speed ->
            IF cond
            THEN [state |-> initial_state, out |-> FALSE]
            ELSE [state |-> st1, out |-> TRUE]
      [] OTHER -> [state |-> st1, out |-> FALSE]

is_out_of_level(st, x, y, s1, s2) ==
    LET st1 == state_on_entry(st)
    IN  transition(st1, first_tests(st1, x, y, s1) /\ last_test(st1, s2))

(***************************************************************************)
(* led_alarm_handler on the static led_toggle and the shared led_on and    *)
(* led_on_val: the new toggle, the value written to is_led_on and the duty *)
(* handed to ledc_set_duty/ledc_update_duty.  Bit 0 of led_toggle marks it *)
(* initialised, bit 1 is the phase.                                        *)
(***************************************************************************)
\* led_toggle >> 1
Shr1(t) == t \div 2

\* led_toggle ^ 0x02
XorBit1(t) == IF Shr1(t) % 2 = 1 THEN t - 2 ELSE t + 2

\* led_alarm_handler with one fault each: the toggle flipped in the off branch
\* only; the test of *led_on inverted

led_alarm_handler_toggleInOffOnly(toggle, on, val) ==
    LET t1 == IF toggle = 0 THEN 1 ELSE toggle
    IN  IF on
        THEN IF Shr1(t1) # 0
             THEN [led_toggle |-> t1, is_led_on |-> TRUE, duty |-> val]
             ELSE [led_toggle |-> XorBit1(t1), is_led_on |-> FALSE, duty |-> 0]
        ELSE [led_toggle |-> t1, is_led_on |-> FALSE, duty |-> 0]

led_alarm_handler_invertedRequest(toggle, on, val) ==
    LET t1 == IF toggle = 0 THEN 1 ELSE toggle
    IN  IF ~on
        THEN IF Shr1(t1) # 0
             THEN [led_toggle |-> XorBit1(t1), is_led_on |-> TRUE, duty |-> val]
             ELSE [led_toggle |-> XorBit1(t1), is_led_on |-> FALSE, duty |-> 0]
        ELSE [led_toggle |-> t1, is_led_on |-> FALSE, duty |-> 0]

\* lines 14-17 with one fault: the toggle is initialised with its second bit
\* set
led_alarm_handler_startsOn(toggle, on, val) ==
    LET t1 == IF toggle = 0 THEN 3 ELSE toggle
    IN  IF on
        THEN IF Shr1(t1) # 0
             THEN [led_toggle |-> XorBit1(t1), is_led_on |-> TRUE,
                   duty |-> val]
             ELSE [led_toggle |-> XorBit1(t1), is_led_on |-> FALSE,
                   duty |-> 0]
        ELSE [led_toggle |-> t1, is_led_on |-> FALSE, duty |-> 0]

led_alarm_handler(toggle, on, val) ==
    LET t1 == IF toggle = 0 THEN 1 ELSE toggle
    IN  IF on
        THEN IF Shr1(t1) # 0
             THEN [led_toggle |-> XorBit1(t1), is_led_on |-> TRUE, duty |-> val]
             ELSE [led_toggle |-> XorBit1(t1), is_led_on |-> FALSE, duty |-> 0]
        ELSE [led_toggle |-> t1, is_led_on |-> FALSE, duty |-> 0]

(***************************************************************************)
(* Initial states.                                                         *)
(***************************************************************************)
NoAngle == [x |-> 0, y |-> 0]

NoEvent == [valid |-> FALSE, id |-> "OTHER", gps_speed |-> 0,
            before |-> 0, last_update |-> 0]

NoCall == [valid |-> FALSE, from |-> 0, x |-> 0, y |-> 0, speed |-> 0,
           out |-> FALSE]

ConfigInit ==
    /\ threshold_angle \in AngleThresholds
    /\ lower_speed \in SpeedThresholds
    /\ upper_speed \in SpeedThresholds

LocalsInit ==
    /\ speed = 0
    /\ led_on = FALSE
    /\ is_led_on = FALSE
    /\ led_on_val = 0
    /\ angle = NoAngle
    /\ light = 0
    /\ is_led_on_read = FALSE
    /\ inited = {}
    /\ torn = <<>>
    /\ state = 0
    /\ speed_r1 = 0
    /\ led_toggle = 0
    /\ timer_running = FALSE
    /\ duty = 0
    /\ handler_registered = FALSE
    /\ cb_seen = "none"
    /\ cb_tick = 0
    /\ cb_served = FALSE
    /\ alarmed = FALSE
    /\ call = NoCall
    /\ event = NoEvent

Init ==
    /\ ConfigInit
    /\ LocalsInit
    /\ pc = "BNO055_init"

(***************************************************************************)
(* app_main, setup portion: each initialisation succeeds or fails, and a   *)
(* failure jumps to end_prog.                                              *)
(***************************************************************************)
InitStep(here, name, next) ==
    /\ pc = here
    /\ \/ /\ inited' = inited \cup {name}
          /\ pc' = next
       \/ /\ inited' = inited
          /\ pc' = "bno055_close"

BNO055_init ==
    /\ InitStep("BNO055_init", "bno055", "M20048_init")
    /\ UNCHANGED <<config_vars, speed, led_on, is_led_on, led_on_val, angle,
                   light, is_led_on_read, torn, state, speed_r1, led_toggle,
                   timer_running, duty, handler_registered, cb_seen, cb_tick,
                   cb_served, alarmed, call, event>>

M20048_init ==
    /\ InitStep("M20048_init", "m20048", "photoresist_init")
    /\ handler_registered' = (pc' = "photoresist_init")
    /\ UNCHANGED <<config_vars, speed, led_on, is_led_on, led_on_val, angle,
                   light, is_led_on_read, torn, state, speed_r1, led_toggle,
                   timer_running, duty, cb_seen, cb_tick, cb_served, alarmed,
                   call, event>>

photoresist_init ==
    /\ InitStep("photoresist_init", "photoresist", "led_init")
    /\ UNCHANGED <<config_vars, speed, led_on, is_led_on, led_on_val, angle,
                   light, is_led_on_read, torn, state, speed_r1, led_toggle,
                   timer_running, duty, handler_registered, cb_seen, cb_tick,
                   cb_served, alarmed, call, event>>

led_init ==
    /\ InitStep("led_init", "led", "check_is_led_on")
    /\ timer_running' = (pc' = "check_is_led_on")
    /\ UNCHANGED <<config_vars, speed, led_on, is_led_on, led_on_val, angle,
                   light, is_led_on_read, torn, state, speed_r1, led_toggle,
                   duty, handler_registered, cb_seen, cb_tick, cb_served,
                   alarmed, call, event>>

(***************************************************************************)
(* app_main, loop portion.                                                 *)
(***************************************************************************)
\* line 88 with one fault each: the test left out; the test inverted
CheckIsLedOn_alwaysSample ==
    /\ pc = "check_is_led_on"
    /\ is_led_on_read' = is_led_on
    /\ pc' = "photoresist_read"
    /\ UNCHANGED <<config_vars, speed, led_on, is_led_on, led_on_val, angle,
                   light, inited, torn, state, speed_r1, led_toggle,
                   timer_running, duty, handler_registered, cb_seen, cb_tick,
                   cb_served, alarmed, call, event>>

CheckIsLedOn_inverted ==
    /\ pc = "check_is_led_on"
    /\ is_led_on_read' = is_led_on
    /\ pc' = IF is_led_on = TRUE THEN "photoresist_read" ELSE "bno055_get_euler"
    /\ UNCHANGED <<config_vars, speed, led_on, is_led_on, led_on_val, angle,
                   light, inited, torn, state, speed_r1, led_toggle,
                   timer_running, duty, handler_registered, cb_seen, cb_tick,
                   cb_served, alarmed, call, event>>

\* line 88: is_led_on is read and decides whether the light is sampled
CheckIsLedOn ==
    /\ pc = "check_is_led_on"
    /\ is_led_on_read' = is_led_on
    /\ pc' = IF is_led_on = FALSE THEN "photoresist_read" ELSE "bno055_get_euler"
    /\ UNCHANGED <<config_vars, speed, led_on, is_led_on, led_on_val, angle,
                   light, inited, torn, state, speed_r1, led_toggle,
                   timer_running, duty, handler_registered, cb_seen, cb_tick,
                   cb_served, alarmed, call, event>>

\* line 89 with one fault: the light is sampled but the result not stored
ReadLight_notStored ==
    /\ pc = "photoresist_read"
    /\ \E r \in LightSamples : light' = r
    /\ pc' = "bno055_get_euler"
    /\ UNCHANGED <<config_vars, speed, led_on, is_led_on, led_on_val, angle,
                   is_led_on_read, inited, torn, state, speed_r1, led_toggle,
                   timer_running, duty, handler_registered, cb_seen, cb_tick,
                   cb_served, alarmed, call, event>>

\* line 89: the light sensor is sampled and led_on_val recomputed
ReadLight ==
    /\ pc = "photoresist_read"
    /\ \E r \in LightSamples :
          /\ light' = r
          /\ led_on_val' = raw_ADC_to_LED_val(r)
    /\ pc' = "bno055_get_euler"
    /\ UNCHANGED <<config_vars, speed, led_on, is_led_on, angle,
                   is_led_on_read, inited, torn, state, speed_r1, led_toggle,
                   timer_running, duty, handler_registered, cb_seen, cb_tick,
                   cb_served, alarmed, call, event>>

\* line 91: the orientation is sampled
GetEuler ==
    /\ pc = "bno055_get_euler"
    /\ \E x \in Angles, y \in Angles : angle' = [x |-> x, y |-> y]
    /\ pc' = "is_out_of_level"
    /\ UNCHANGED <<config_vars, speed, led_on, is_led_on, led_on_val, light,
                   is_led_on_read, inited, torn, state, speed_r1, led_toggle,
                   timer_running, duty, handler_registered, cb_seen, cb_tick,
                   cb_served, alarmed, call, event>>

\* line 92, lines 161-184: is_out_of_level up to the first read of *speed.
\* When the tests so far fail the call is over: it returns its result, which
\* is stored in led_on.  Otherwise the last test, with its own read of
\* *speed, is still to come.  angle is not read again before the next tick
\* overwrites it (the log of line 93 is not modelled).
LevelFirstTests ==
    /\ pc = "is_out_of_level"
    /\ LET st1 == state_on_entry(state)
       IN  IF first_tests(st1, angle.x, angle.y, speed)
           THEN /\ state' = st1
                /\ speed_r1' = speed
                /\ pc' = "is_out_of_level_2"
                /\ UNCHANGED <<led_on, alarmed>>
           ELSE LET r == transition(st1, FALSE)
                IN  /\ state' = r.state
                    /\ led_on' = r.out
                    /\ alarmed' = (alarmed \/ r.out)
                    /\ speed_r1' = 0
                    /\ pc' = "delay"
    /\ angle' = NoAngle
    /\ UNCHANGED <<config_vars, speed, is_led_on, led_on_val, light,
                   is_led_on_read, inited, torn, led_toggle, timer_running,
                   duty, handler_registered, cb_seen, cb_tick, cb_served,
                   call, event>>

\* line 92, lines 175/184: the second read of *speed is a reload of the shared
\* float or a reuse of the value already loaded (speed is not volatile, and
\* nothing between the two reads forces a reload); then the branch is taken
\* and the result stored in led_on
LevelLastTest ==
    /\ pc = "is_out_of_level_2"
    /\ \E s2 \in {speed_r1, speed} :
          LET r == transition(state, last_test(state, s2))
          IN  /\ state' = r.state
              /\ led_on' = r.out
              /\ alarmed' = (alarmed \/ r.out)
    /\ speed_r1' = 0
    /\ pc' = "delay"
    /\ UNCHANGED <<config_vars, speed, is_led_on, led_on_val, angle, light,
                   is_led_on_read, inited, torn, led_toggle, timer_running,
                   duty, handler_registered, cb_seen, cb_tick, cb_served,
                   call, event>>

\* lines 93-94 with one fault: a break after the delay
LoopDelay_breaks ==
    /\ pc = "delay"
    /\ is_led_on_read' = FALSE
    /\ pc' = "bno055_close"
    /\ UNCHANGED <<config_vars, speed, led_on, is_led_on, led_on_val, angle,
                   light, inited, torn, state, speed_r1, led_toggle,
                   timer_running, duty, handler_registered, cb_seen, cb_tick,
                   cb_served, alarmed, call, event>>

\* lines 93-94: log and vTaskDelay; the value read at line 88 is dead from
\* here to the next tick, which reads is_led_on again
LoopDelay ==
    /\ pc = "delay"
    /\ is_led_on_read' = FALSE
    /\ pc' = "check_is_led_on"
    /\ UNCHANGED <<config_vars, speed, led_on, is_led_on, led_on_val, angle,
                   light, inited, torn, state, speed_r1, led_toggle,
                   timer_running, duty, handler_registered, cb_seen, cb_tick,
                   cb_served, alarmed, call, event>>

(***************************************************************************)
(* The LED timer callback: it runs whenever the timer started by led_init  *)
(* reaches its alarm count, between any two steps of app_main.  The ledc   *)
(* calls are taken to return ESP_OK; on any other result ESP_ERROR_CHECK   *)
(* aborts the program.                                                     *)
(***************************************************************************)
\* the callback with one fault: it clears the request it has served
TimerAlarm_clearsRequest ==
    /\ timer_running
    /\ LET r == led_alarm_handler(led_toggle, led_on, led_on_val)
       IN  /\ led_toggle' = r.led_toggle
           /\ is_led_on' = r.is_led_on
           /\ duty' = r.duty
    /\ led_on' = FALSE
    /\ cb_seen' = IF led_on THEN "true" ELSE "false"
    /\ cb_tick' = 1 - cb_tick
    /\ cb_served' = (cb_served \/ led_on)
    /\ UNCHANGED <<config_vars, pc, speed, led_on_val, angle, light,
                   is_led_on_read, inited, torn, state, speed_r1,
                   timer_running, handler_registered, alarmed, call, event>>

TimerAlarm ==
    /\ timer_running
    /\ LET r == led_alarm_handler(led_toggle, led_on, led_on_val)
       IN  /\ led_toggle' = r.led_toggle
           /\ is_led_on' = r.is_led_on
           /\ duty' = r.duty
    /\ cb_seen' = IF led_on THEN "true" ELSE "false"
    /\ cb_tick' = 1 - cb_tick
    /\ cb_served' = (cb_served \/ led_on)
    /\ UNCHANGED <<config_vars, pc, speed, led_on, led_on_val, angle, light,
                   is_led_on_read, inited, torn, state, speed_r1,
                   timer_running, handler_registered, alarmed, call, event>>

(***************************************************************************)
(* The speed callback: it runs on the NMEA parser's event loop for every   *)
(* event posted while the handler is registered.                           *)
(***************************************************************************)
\* the handler with one fault: the switch on event_id left out
M20048_event_handler_anyEvent(event_id, gps_speed) == gps_speed

M20048_event_handler(event_id, gps_speed) ==
    IF event_id = "GPS_UPDATE" THEN gps_speed ELSE speed

SpeedEvent ==
    /\ handler_registered
    /\ \E event_id \in EventIds, gps_speed \in Speeds :
          speed' = M20048_event_handler(event_id, gps_speed)
    /\ UNCHANGED <<config_vars, pc, led_on, is_led_on, led_on_val, angle,
                   light, is_led_on_read, inited, torn, state, speed_r1,
                   led_toggle, timer_running, duty, handler_registered,
                   cb_seen, cb_tick, cb_served, alarmed, call, event>>

(***************************************************************************)
(* app_main, exit portion (end_prog): every teardown call is made, its     *)
(* result logged, and the next one follows.  The handles passed are locals *)
(* without initialiser (lines 42-45) that only the initialisation of their *)
(* collaborator writes, and end_prog is entered from each of the four      *)
(* failures.  A teardown call on a handle whose initialisation did not     *)
(* succeed may therefore read an indeterminate pointer: it returns some    *)
(* result or it faults; after a fault the panic handler halts or restarts  *)
(* the chip, and this run of app_main goes no further (pc = "panic").      *)
(* bno055_close takes i2c_num, which is initialised (line 41).             *)
(***************************************************************************)
Results == {"ESP_OK", "ESP_FAIL"}

Outcomes(name) ==
    IF name \in inited THEN Results ELSE Results \cup {"PANIC"}

ExitStep(here, err, next) ==
    /\ pc = here
    /\ torn' = Append(torn, [call |-> here, err |-> err])
    /\ pc' = IF err = "PANIC" THEN "panic" ELSE next
    /\ handler_registered' =
          IF here \in {"nmea_parser_remove_handler", "nmea_parser_deinit"}
          THEN handler_registered /\ err = "ESP_FAIL"
          ELSE handler_registered /\ err # "PANIC"
    /\ timer_running' =
          IF here = "led_deinit"
          THEN timer_running /\ err = "ESP_FAIL"
          ELSE timer_running /\ err # "PANIC"
    /\ UNCHANGED <<config_vars, speed, led_on, is_led_on, led_on_val, angle,
                   light, is_led_on_read, inited, state, speed_r1,
                   led_toggle, duty, cb_seen, cb_tick, cb_served, alarmed,
                   call, event>>

bno055_close ==
    /\ pc = "bno055_close"
    /\ \E err \in Results :
          ExitStep("bno055_close", err, "nmea_parser_remove_handler")

nmea_parser_remove_handler ==
    /\ pc = "nmea_parser_remove_handler"
    /\ \E err \in Outcomes("m20048") :
          ExitStep("nmea_parser_remove_handler", err, "nmea_parser_deinit")

nmea_parser_deinit ==
    /\ pc = "nmea_parser_deinit"
    /\ \E err \in Outcomes("m20048") :
          ExitStep("nmea_parser_deinit", err, "photoresist_deinit")

photoresist_deinit ==
    /\ pc = "photoresist_deinit"
    /\ \E err \in Outcomes("photoresist") :
          ExitStep("photoresist_deinit", err, "led_deinit")

led_deinit ==
    /\ pc = "led_deinit"
    /\ \E err \in Outcomes("led") :
          ExitStep("led_deinit", err, "finished")

(***************************************************************************)
(* The program.                                                            *)
(***************************************************************************)
Next ==
    \/ BNO055_init
    \/ M20048_init
    \/ photoresist_init
    \/ led_init
    \/ CheckIsLedOn
    \/ ReadLight
    \/ GetEuler
    \/ LevelFirstTests
    \/ LevelLastTest
    \/ LoopDelay
    \/ TimerAlarm
    \/ SpeedEvent
    \/ bno055_close
    \/ nmea_parser_remove_handler
    \/ nmea_parser_deinit
    \/ photoresist_deinit
    \/ led_deinit

Spec == Init /\ [][Next]_vars

(***************************************************************************)
(* The program under its scheduling.  app_main is a FreeRTOS task that is  *)
(* ready except during vTaskDelay; the timer callback and the speed        *)
(* callback run for a bounded time per event, so app_main takes its next   *)
(* step whenever it has one.  The timer started by led_init reloads itself *)
(* (auto_reload_on_alarm), so its callback keeps coming while it runs.     *)
(***************************************************************************)
app_main ==
    \/ BNO055_init
    \/ M20048_init
    \/ photoresist_init
    \/ led_init
    \/ CheckIsLedOn
    \/ ReadLight
    \/ GetEuler
    \/ LevelFirstTests
    \/ LevelLastTest
    \/ LoopDelay
    \/ bno055_close
    \/ nmea_parser_remove_handler
    \/ nmea_parser_deinit
    \/ photoresist_deinit
    \/ led_deinit

FairSpec == Spec /\ WF_vars(app_main) /\ WF_vars(TimerAlarm)

(***************************************************************************)
(* is_out_of_level alone: called again and again, each call on an          *)
(* arbitrary angle and an arbitrary speed that does not change during the  *)
(* call, under every threshold configuration.  The static state starts at  *)
(* 0, as the C runtime leaves it, or at a value an earlier call has left:  *)
(* NORMAL or ALARM (ALARM with lower_speed > upper_speed is entered in the *)
(* whole program when speed changes between the two reads of *speed).      *)
(***************************************************************************)
StaticStates == {0, initial_state, threshold_angle_and_speed}

LevelInit ==
    /\ ConfigInit
    /\ speed = 0
    /\ led_on = FALSE
    /\ is_led_on = FALSE
    /\ led_on_val = 0
    /\ angle = NoAngle
    /\ light = 0
    /\ is_led_on_read = FALSE
    /\ inited = {}
    /\ torn = <<>>
    /\ state \in StaticStates
    /\ speed_r1 = 0
    /\ led_toggle = 0
    /\ timer_running = FALSE
    /\ duty = 0
    /\ handler_registered = FALSE
    /\ cb_seen = "none"
    /\ cb_tick = 0
    /\ cb_served = FALSE
    /\ alarmed = FALSE
    /\ call = NoCall
    /\ event = NoEvent
    /\ pc = "level_calls"

LevelCall ==
    /\ pc = "level_calls"
    /\ \E x \in Angles, y \in Angles, s \in Speeds :
          LET r == is_out_of_level(state, x, y, s, s)
          IN  /\ state' = r.state
              /\ call' = [valid |-> TRUE, from |-> state, x |-> x, y |-> y,
                          speed |-> s, out |-> r.out]
    /\ UNCHANGED <<config_vars, pc, speed, led_on, is_led_on, led_on_val,
                   angle, light, is_led_on_read, inited, torn, speed_r1,
                   led_toggle, timer_running, duty, handler_registered,
                   cb_seen, cb_tick, cb_served, alarmed, event>>

LevelNext == LevelCall

SpecLevel == LevelInit /\ [][LevelNext]_vars

(***************************************************************************)
(* raw_ADC_to_LED_val alone: applied to one arbitrary light reading.       *)
(***************************************************************************)
MapInit ==
    /\ threshold_angle = 1
    /\ lower_speed = 1
    /\ upper_speed = 1
    /\ LocalsInit
    /\ pc = "map_call"

MapCall ==
    /\ pc = "map_call"
    /\ \E r \in Readings :
          /\ light' = r
          /\ led_on_val' = raw_ADC_to_LED_val(r)
    /\ pc' = "map_done"
    /\ UNCHANGED <<config_vars, speed, led_on, is_led_on, angle,
                   is_led_on_read, inited, torn, state, speed_r1, led_toggle,
                   timer_running, duty, handler_registered, cb_seen, cb_tick,
                   cb_served, alarmed, call, event>>

MapNext == MapCall

SpecMap == MapInit /\ [][MapNext]_vars

(***************************************************************************)
(* M20048_event_handler alone: registered on the event loop and called for *)
(* one event after the other, each with an arbitrary id and, for a         *)
(* GPS_UPDATE, an arbitrary ground speed.  speed starts at 0 (line 36).    *)
(* last_update is the ground speed of the latest GPS_UPDATE, 0 before the  *)
(* first.                                                                  *)
(***************************************************************************)
EventInit ==
    /\ ConfigInit
    /\ speed = 0
    /\ led_on = FALSE
    /\ is_led_on = FALSE
    /\ led_on_val = 0
    /\ angle = NoAngle
    /\ light = 0
    /\ is_led_on_read = FALSE
    /\ inited = {}
    /\ torn = <<>>
    /\ state = 0
    /\ speed_r1 = 0
    /\ led_toggle = 0
    /\ timer_running = FALSE
    /\ duty = 0
    /\ handler_registered = TRUE
    /\ cb_seen = "none"
    /\ cb_tick = 0
    /\ cb_served = FALSE
    /\ alarmed = FALSE
    /\ call = NoCall
    /\ event = NoEvent
    /\ pc = "event_loop"

EventCall ==
    /\ pc = "event_loop"
    /\ handler_registered
    /\ \E event_id \in EventIds, gps_speed \in Speeds :
          /\ speed' = M20048_event_handler(event_id, gps_speed)
          /\ event' = [valid |-> TRUE, id |-> event_id,
                       gps_speed |-> gps_speed, before |-> speed,
                       last_update |-> IF event_id = "GPS_UPDATE"
                                       THEN gps_speed
                                       ELSE event.last_update]
    /\ UNCHANGED <<config_vars, pc, led_on, is_led_on, led_on_val, angle,
                   light, is_led_on_read, inited, torn, state, speed_r1,
                   led_toggle, timer_running, duty, handler_registered,
                   cb_seen, cb_tick, cb_served, alarmed, call>>

EventNext == EventCall

SpecEvent == EventInit /\ [][EventNext]_vars

(***************************************************************************)
(* Properties of is_out_of_level (SpecLevel).  call holds the latest call: *)
(* the static state it found, its inputs and the value it returned; state  *)
(* is the static state it left.                                            *)
(***************************************************************************)
CallAngleBelowThreshold ==
    call.x * call.x + call.y * call.y < threshold_angle * threshold_angle

CallSpeedInBand == lower_speed <= call.speed /\ call.speed <= upper_speed

\* C1: from NORMAL (static state 0 on the first call, or 1) the call returns
\* true and moves to ALARM if and only if combined_angle >= threshold_angle
\* and lower_speed <= speed <= upper_speed; otherwise it returns false and
\* the state is NORMAL.
C1_NormalToAlarm ==
    (call.valid /\ call.from \in {0, initial_state}) =>
        LET armed == ~CallAngleBelowThreshold /\ CallSpeedInBand
        IN  /\ call.out = armed
            /\ state = IF armed THEN threshold_angle_and_speed
                       ELSE initial_state

C1_Witness ==
    /\ call.valid
    /\ call.from = 0
    /\ call.out
    /\ state = threshold_angle_and_speed

C4_RecoversWhenBothNormal ==
    (/\ call.valid
     /\ call.from = threshold_angle_and_speed
     /\ lower_speed <= upper_speed
     /\ CallAngleBelowThreshold
     /\ ~CallSpeedInBand) =>
        (~call.out /\ state = initial_state)

(***************************************************************************)
(* Properties of the control loop and the timer callback (Spec).           *)
(***************************************************************************)
SamplesLight == pc = "photoresist_read" /\ pc' = "bno055_get_euler"

\* C5: the light sensor is never sampled at a moment when the LED is lit
\* (is_led_on true with a non-zero duty applied).
C5_NeverSampledWhileLit ==
    [][SamplesLight => ~(is_led_on /\ duty # 0)]_vars

\* C6, as claimed: led_on_val is never recomputed on a tick that immediately
\* follows a tick whose alarm output (led_on) was true.
C6_NoRecomputeAfterAlarmTick ==
    [][SamplesLight => ~led_on]_vars

\* C6, amended: on a tick that immediately follows a tick whose alarm output
\* was true, led_on_val is recomputed only by the sampling step of line 89
\* and only if is_led_on was read as false at the start of that tick.
C6_NoRecomputeAfterAlarmTickSeenLit ==
    [][(led_on /\ (SamplesLight \/ led_on_val' # led_on_val
                     \/ light' # light)) =>
          (SamplesLight /\ ~is_led_on_read)]_vars

C6_Witness ==
    /\ pc = "bno055_get_euler"
    /\ led_on
    /\ is_led_on_read
    /\ led_on_val = raw_ADC_to_LED_val(light)

\* C7: in each tick led_on_val is recomputed from a fresh light reading if
\* and only if is_led_on is read as false at the start of the tick; in a
\* tick where it is read as true the sensor is not sampled and led_on_val
\* keeps its value.
C7_RecomputeIffReadOff ==
    [][/\ (pc = "check_is_led_on" /\ pc' # pc) =>
             /\ is_led_on_read' = is_led_on
             /\ (pc' = "photoresist_read") = (is_led_on = FALSE)
             /\ (pc' = "bno055_get_euler") = (is_led_on = TRUE)
             /\ UNCHANGED <<led_on_val, light>>
       /\ SamplesLight =>
             /\ ~is_led_on_read
             /\ light' \in LightSamples
             /\ led_on_val' = raw_ADC_to_LED_val(light')
       /\ (pc' # pc /\ ~SamplesLight) => UNCHANGED <<led_on_val, light>>
       /\ (pc' = pc) => UNCHANGED <<led_on_val, light, is_led_on_read>>
      ]_vars

C7_Witness ==
    /\ pc = "delay"
    /\ is_led_on_read
    /\ light = AdcNominalMax
    /\ led_on_val = raw_ADC_to_LED_val(AdcNominalMax)

\* C8: of two consecutive timer callbacks that both observe led_on true,
\* one sets the duty to led_on_val and is_led_on to true and the other sets
\* the duty to 0 and is_led_on to false: on is followed by off and off by on.
C8_Alternates ==
    [][(cb_tick' # cb_tick /\ cb_seen = "true" /\ led_on) =>
          IF is_led_on
          THEN ~is_led_on' /\ duty' = 0
          ELSE is_led_on' /\ duty' = led_on_val]_vars

C8_Witness ==
    /\ cb_seen = "true"
    /\ led_on
    /\ is_led_on
    /\ duty = led_on_val
    /\ duty >= 102
    /\ cb_tick = 0

\* C9: after a timer callback that observed led_on false the duty is 0 and
\* is_led_on is false, whatever the toggle bit; is_led_on true implies that
\* the latest callback observed led_on true; and the LED is never lit before
\* is_out_of_level has returned true.
C9_OffWhenNotRequested ==
    /\ cb_seen = "false" => (~is_led_on /\ duty = 0)
    /\ is_led_on => cb_seen = "true"
    /\ (is_led_on \/ duty # 0) => alarmed

C9_Witness ==
    /\ cb_seen = "false"
    /\ led_toggle = 1
    /\ led_on_val >= 102
    /\ ~alarmed
    /\ ~led_on
    /\ ~is_led_on
    /\ duty = 0

(***************************************************************************)
(* Properties of raw_ADC_to_LED_val (SpecMap).                             *)
(***************************************************************************)
\* C10: for every light reading the value returned is an integer in
\* [102, 1023]: never negative, never 0, never above the 10-bit maximum.
C10_DutyInRange ==
    pc = "map_done" => (led_on_val \in Int /\ 102 <= led_on_val
                          /\ led_on_val <= 1023)

C10_Witness ==
    /\ pc = "map_done"
    /\ light = 100
    /\ led_on_val = 102

\* The mapping as the specification words it, on exact rationals: t is
\* (r - 500)/2598; the result is 102 for t < 0.1, 1023 for t > 1, and
\* (r - 500) * 1023 / 2598 with its fraction dropped in between (where the
\* quotient is positive).
ReferenceMap(r) ==
    IF 10 * (r - 500) < 2598 THEN 102
    ELSE IF r - 500 > 2598 THEN 1023
    ELSE ((r - 500) * 1023) \div 2598

\* C11: raw_ADC_to_LED_val(r) equals the reference mapping for every light
\* reading r; in particular it maps 100, 150 and 500 to 102, 2450 to 767 and
\* 3098 to 1023.
C11_EqualsReference ==
    pc = "map_done" =>
        /\ led_on_val = ReferenceMap(light)
        /\ light \in {100, 150, 500} => led_on_val = 102
        /\ light = 2450 => led_on_val = 767
        /\ light = 3098 => led_on_val = 1023

C11_Witness ==
    /\ pc = "map_done"
    /\ light = 2450
    /\ led_on_val = 767

\* C12: raw_ADC_to_LED_val is monotonic non-decreasing: every reading a at
\* or below the reading b just mapped has map(a) <= map(b), in the
\* un-clamped region and across both clamp boundaries.
C12_Monotonic ==
    pc = "map_done" =>
        \A a \in (0 - BelowZero)..light :
            raw_ADC_to_LED_val(a) <= led_on_val

C12_Witness ==
    /\ pc = "map_done"
    /\ light = 3099
    /\ led_on_val = 1023
    /\ raw_ADC_to_LED_val(3097) = 1022
    /\ raw_ADC_to_LED_val(760) = 102
    /\ raw_ADC_to_LED_val(0 - 1) = 102

(***************************************************************************)
(* Properties of the setup and exit portions of app_main (Spec, FairSpec). *)
(***************************************************************************)
AllInits == {"bno055", "m20048", "photoresist", "led"}

InitPcs == {"BNO055_init", "M20048_init", "photoresist_init", "led_init"}

LoopPcs == {"check_is_led_on", "photoresist_read", "bno055_get_euler",
            "is_out_of_level", "is_out_of_level_2", "delay"}

TeardownCalls == <<"bno055_close", "nmea_parser_remove_handler",
                   "nmea_parser_deinit", "photoresist_deinit", "led_deinit">>

\* the setup portion is over and not all four initialisations succeeded
InitFailed == pc \notin InitPcs /\ inited # AllInits

\* C13: if any of the four initialisations fails, the control loop is never
\* entered, no later initialisation is attempted, led_on is never set to
\* true, and app_main reaches its end ('Finished') after running the
\* teardown path.
C13_InitFailureEndsAfterTeardown ==
    /\ [](InitFailed => (pc \notin LoopPcs /\ ~led_on /\ ~alarmed))
    /\ [][InitFailed => (pc' \notin InitPcs /\ inited' = inited)]_vars
    /\ (InitFailed ~> (pc = "finished" /\ Len(torn) = Len(TeardownCalls)))

\* the parts of C13 that do not depend on how the teardown calls end
C13_SafetyPart ==
    /\ [](InitFailed => (pc \notin LoopPcs /\ ~led_on /\ ~alarmed))
    /\ [][InitFailed => (pc' \notin InitPcs /\ inited' = inited)]_vars

\* the collaborator a teardown call belongs to, and the position of its
\* initialisation in the setup portion
CollaboratorOf(c) ==
    CASE c = "bno055_close" -> "bno055"
      [] c \in {"nmea_parser_remove_handler", "nmea_parser_deinit"}
           -> "m20048"
      [] c = "photoresist_deinit" -> "photoresist"
      [] c = "led_deinit" -> "led"

InitOrder(name) ==
    CASE name = "bno055" -> 1
      [] name = "m20048" -> 2
      [] name = "photoresist" -> 3
      [] name = "led" -> 4

TornDown == {CollaboratorOf(torn[i].call) : i \in DOMAIN torn}

\* C14: after an initialisation failure the exit path deinitialises exactly
\* the collaborators whose initialisation had succeeded, never one that was
\* not initialised, and in the reverse of the order of initialisation.
C14_TeardownMirrorsInit ==
    /\ TornDown \subseteq inited
    /\ \A i, j \in DOMAIN torn :
          i < j => InitOrder(CollaboratorOf(torn[i].call))
                     >= InitOrder(CollaboratorOf(torn[j].call))
    /\ pc = "finished" => TornDown = inited

C15_ReturnedResultsSkipNothing ==
    /\ [](pc = "finished" =>
            [i \in DOMAIN torn |-> torn[i].call] = TeardownCalls)
    /\ [][(pc' # pc /\ torn # <<>> /\ torn[Len(torn)].err \in Results) =>
            (Len(torn') = Len(torn) + 1 /\ torn'[Len(torn')].call = pc)]_vars

InBand(v) == lower_speed <= v /\ v <= upper_speed

\* C17: a tick moves from NORMAL to ALARM only if one single value of speed
\* lies in [lower_speed, upper_speed]; the lower-bound check on one value is
\* never combined with the upper-bound check on a later one.
C17_SingleSpeedPerTick ==
    [][(state # threshold_angle_and_speed
          /\ state' = threshold_angle_and_speed) =>
          (InBand(speed_r1) \/ InBand(speed))]_vars

\* C18: speed is changed only by the speed callback, led_on and led_on_val
\* only by the control loop (led_on by the call of is_out_of_level,
\* led_on_val by the sampling step), is_led_on only by the timer callback,
\* and the static alarm state only by is_out_of_level.
C18_SingleWriter ==
    [][/\ speed' # speed =>
             (pc' = pc /\ cb_tick' = cb_tick /\ handler_registered)
       /\ led_on' # led_on =>
             (pc \in {"is_out_of_level", "is_out_of_level_2"} /\ pc' = "delay"
                /\ cb_tick' = cb_tick)
       /\ led_on_val' # led_on_val => (SamplesLight /\ cb_tick' = cb_tick)
       /\ is_led_on' # is_led_on => (cb_tick' # cb_tick /\ pc' = pc)
       /\ state' # state =>
             (pc \in {"is_out_of_level", "is_out_of_level_2"} /\ pc' # pc
                /\ cb_tick' = cb_tick)
      ]_vars

C18_Witness ==
    /\ speed # 0
    /\ led_on
    /\ led_on_val = raw_ADC_to_LED_val(AdcNominalMax)
    /\ is_led_on
    /\ state = threshold_angle_and_speed
    /\ pc = "check_is_led_on"

C20_StateNormalOrAlarm ==
    /\ state \in StaticStates
    /\ state = 0 => ~call.valid
    /\ call.valid =>
          /\ state \in {initial_state, threshold_angle_and_speed}
          /\ state_on_entry(call.from)
                \in {initial_state, threshold_angle_and_speed}
          /\ call.out = (state = threshold_angle_and_speed)

C20_Witness ==
    /\ call.valid
    /\ call.from = 0
    /\ ~call.out
    /\ state = initial_state

(***************************************************************************)
(* Further properties of the control loop and the timer callback (Spec,    *)
(* FairSpec).                                                              *)
(***************************************************************************)
\* C21: under every interleaving, whenever the LED is lit (is_led_on true)
\* the duty applied is in [102, 1023]; the initial led_on_val of 0 is never
\* applied as an on-duty, because led_on_val has been recomputed by the time
\* led_on first becomes true.
C21_LitDutyInRange ==
    /\ is_led_on => (102 <= duty /\ duty <= 1023)
    /\ (led_on \/ alarmed) => (102 <= led_on_val /\ led_on_val <= 1023)

C21_Witness ==
    /\ is_led_on
    /\ led_on
    /\ cb_served
    /\ duty = raw_ADC_to_LED_val(AdcNominalMax)
    /\ led_on_val = duty

\* C22: when led_on has become true and stays true, the LED is lit (is_led_on
\* true, duty led_on_val) no later than the second timer callback that
\* follows: of two callbacks in a row that find led_on true, the first has
\* lit it or the second does.  The first callback after boot that finds
\* led_on true is an off phase.
C22_LitBySecondCallback ==
    [][/\ (cb_tick' # cb_tick /\ led_on /\ cb_seen = "true") =>
             \/ is_led_on /\ duty >= 102
             \/ is_led_on' /\ duty' = led_on_val
       /\ (cb_tick' # cb_tick /\ led_on /\ ~cb_served) =>
             (~is_led_on' /\ duty' = 0 /\ cb_served')
      ]_vars

C22_Witness ==
    /\ cb_served
    /\ cb_seen = "true"
    /\ led_on
    /\ ~is_led_on
    /\ duty = 0
    /\ led_toggle = 3

\* C23: with lower_speed <= upper_speed, once is_out_of_level has returned
\* true, and with the control loop and the timer callback both running for
\* ever, the LED is on infinitely often and off infinitely often.
C23_FlashesForEver ==
    [](lower_speed <= upper_speed /\ alarmed =>
          ([]<>is_led_on /\ []<>~is_led_on))

\* the part of C23 that holds: while the request stands the LED comes on,
\* and a lit LED goes dark again
C23_FlashesWhileRequested ==
    /\ (alarmed /\ led_on) ~> (is_led_on \/ ~led_on)
    /\ is_led_on ~> ~is_led_on

(***************************************************************************)
(* Successive calls of is_out_of_level (SpecLevel).                        *)
(***************************************************************************)
\* C24: for every starting state, threshold configuration and input, a
\* second call of is_out_of_level with the same angle and speed, made right
\* after the first, returns what the first returned and leaves the state as
\* the first left it.
C24_SecondCallRepeats ==
    call.valid =>
        is_out_of_level(state, call.x, call.y, call.speed, call.speed)
            = [state |-> state, out |-> call.out]

C24_Witness ==
    /\ call.valid
    /\ call.from = threshold_angle_and_speed
    /\ state = initial_state
    /\ ~call.out
    /\ ~is_out_of_level(state, call.x, call.y, call.speed, call.speed).out

(***************************************************************************)
(* Properties of M20048_event_handler (SpecEvent).                         *)
(***************************************************************************)
\* C25: the handler writes speed only on a GPS_UPDATE event, setting it to
\* that event's ground speed; a GPS_UNKNOWN event or any other event id
\* leaves speed as it was, so speed is always the ground speed of the latest
\* GPS_UPDATE, or the initial 0 when there has been none.
C25_SpeedOnlyOnGpsUpdate ==
    /\ ~event.valid => speed = 0
    /\ event.valid =>
          /\ speed = IF event.id = "GPS_UPDATE" THEN event.gps_speed
                     ELSE event.before
          /\ speed = event.last_update

C25_Witness ==
    /\ event.valid
    /\ event.id = "GPS_UNKNOWN"
    /\ event.gps_speed = 1
    /\ event.before = 3
    /\ speed = 3

=============================================================================
